---- MODULE Spec2Model ----
(***************************************************************************)
(* Git Monitor: the repository status classifier (getRepoStatus) and the   *)
(* HTTP request listener that runs it over the configured projects.        *)
(*                                                                         *)
(* The repository holds two revisions of the server: the grouped one       *)
(* (src/unnamed/part_003: groups, gitDir, sequential pass that writes      *)
(* project.repoStatus) and the flat one (src/server.ts: a flat project     *)
(* list, Promise.all, a local result list).  Definitions without a suffix  *)
(* model part_003; definitions ending in ServerTs model src/server.ts.     *)
(*                                                                         *)
(* Text is modelled as TLA+ strings, character by character: indexOf,      *)
(* trim, split, substr and parseInt are computed as JavaScript computes    *)
(* them.                                                                   *)
(***************************************************************************)
EXTENDS Integers, Sequences, FiniteSets, TLC

VARIABLES
    input,            \* SpecClassify: one getRepoStatus call: its revision and arguments, and what each command answers
    result,           \* SpecClassify: how that call settles (pending until it has)
    call,             \* SpecCall: where one getRepoStatus call stands, what it spawned and was answered
    run,              \* SpecExec: one execAsync call: its command, its child process and its promise
    config,           \* the parsed configuration file (and the revision of the server that loaded it)
    phase,            \* main: "starting", then "listening" (server.listen) or "exited" (return)
    repoStatus,       \* part_003: project.repoStatus of every project of config, in loop order
    req               \* per HTTP request: where its requestListener stands

vars == <<input, result, call, run, config, phase, repoStatus, req>>
classifyVars == <<input, result, call, run>>
serverVars == <<config, phase, repoStatus, req>>

(***************************************************************************)
(* Bounds of the model.                                                    *)
(***************************************************************************)
MaxEntries == 2       \* most entries (lines) in one porcelain status output
MaxCount == 2         \* largest ahead/behind count rev-list reports
MaxRequests == 1      \* HTTP requests in flight at once

(***************************************************************************)
(* enum RepoStatus                                                         *)
(***************************************************************************)
PathNotFound == "Path does not exist"
NotAGitRepo == "Not a git repo"
NoCommitsYet == "No commits yet"
UntrackedFiles == "Untracked files"
UncommittedChanges == "Uncommitted changes"
UnpushedChanges == "Ahead of remote branch"
UnpulledChanges == "Behind remote branch"
Okay == "Okay!"
UnknownError == "Unknown Error"

RepoStatus ==
    { PathNotFound, NotAGitRepo, NoCommitsYet, UntrackedFiles, UncommittedChanges,
      UnpushedChanges, UnpulledChanges, Okay, UnknownError }

\* A value no RepoStatus member equals: what a field holds before it is assigned.
undefined == "undefined"

\* A JavaScript number as parseInt returns it: an integer, or Number.NaN (the
\* result of parseInt on text that starts with no digits).
Number(n) == [isNaN |-> FALSE, n |-> n]
NaN == [isNaN |-> TRUE, n |-> 0]

(***************************************************************************)
(* JavaScript string and array built-ins used by getRepoStatus.            *)
(* Positions are 1-based inside the operators; indexOf answers 0-based     *)
(* like String.prototype.indexOf (-1: not found).                          *)
(***************************************************************************)
Min(a, b) == IF a <= b THEN a ELSE b

occursAt(s, sub, i) ==
    /\ i + Len(sub) - 1 <= Len(s)
    /\ SubSeq(s, i, i + Len(sub) - 1) = sub

indexOf(s, sub) ==
    LET hits == { i \in 1..(Len(s) + 1) : occursAt(s, sub, i) }
    IN  IF hits = {} THEN -1
        ELSE (CHOOSE i \in hits : \A j \in hits : i <= j) - 1

isWhiteSpace(c) == c \in {" ", "\n", "\t", "\r"}

RECURSIVE trimStart(_)
trimStart(s) ==
    IF Len(s) > 0 /\ isWhiteSpace(SubSeq(s, 1, 1))
    THEN trimStart(SubSeq(s, 2, Len(s)))
    ELSE s

RECURSIVE trimEnd(_)
trimEnd(s) ==
    IF Len(s) > 0 /\ isWhiteSpace(SubSeq(s, Len(s), Len(s)))
    THEN trimEnd(SubSeq(s, 1, Len(s) - 1))
    ELSE s

trim(s) == trimEnd(trimStart(s))

\* String.prototype.split with a one-character separator: "" splits to [""].
RECURSIVE split(_, _)
split(s, sep) ==
    LET at == indexOf(s, sep)
    IN  IF at < 0 THEN <<s>>
        ELSE <<SubSeq(s, 1, at)>> \o split(SubSeq(s, at + 2, Len(s)), sep)

substr(s, start, length) == SubSeq(s, start + 1, Min(Len(s), start + length))

\* Array.prototype.map with (line) => line.substr(0, 2)
firstTwo(lines) == [i \in 1..Len(lines) |-> substr(lines[i], 0, 2)]

arrayIndexOf(seq, x) ==
    LET hits == { i \in 1..Len(seq) : seq[i] = x }
    IN  IF hits = {} THEN -1
        ELSE (CHOOSE i \in hits : \A j \in hits : i <= j) - 1

isDigit(c) == c \in {"0", "1", "2", "3", "4", "5", "6", "7", "8", "9"}

digitValue(c) == CHOOSE d \in 0..9 : ToString(d) = c

RECURSIVE digitsValue(_, _)
digitsValue(s, acc) ==
    IF Len(s) > 0 /\ isDigit(SubSeq(s, 1, 1))
    THEN digitsValue(SubSeq(s, 2, Len(s)), 10 * acc + digitValue(SubSeq(s, 1, 1)))
    ELSE acc

\* Mutant of parseInt: the whole text must be digits (a trailing newline gives NaN).
parseIntWholeText(s) ==
    IF Len(s) > 0 /\ \A i \in 1..Len(s) : isDigit(SubSeq(s, i, i))
    THEN Number(digitsValue(s, 0))
    ELSE NaN

\* parseInt(text): leading white space skipped, an optional sign, then the
\* longest run of decimal digits; NaN when no digit follows.
parseInt(s) ==
    LET t == trimStart(s)
        signed == Len(t) > 0 /\ SubSeq(t, 1, 1) \in {"+", "-"}
        body == IF signed THEN SubSeq(t, 2, Len(t)) ELSE t
    IN  IF Len(body) = 0 \/ ~isDigit(SubSeq(body, 1, 1)) THEN NaN
        ELSE IF signed /\ SubSeq(t, 1, 1) = "-" THEN Number(0 - digitsValue(body, 0))
        ELSE Number(digitsValue(body, 0))

\* Mutant of greaterThanZero: written as !(x <= 0), which is true of NaN.
notAtMostZero(x) == x.isNaN \/ x.n > 0

\* x > 0 on a JavaScript number: every comparison with NaN is false.
greaterThanZero(x) == ~x.isNaN /\ x.n > 0

(***************************************************************************)
(* execAsync and the commands' possible answers.                           *)
(* execAsync resolves with {stdout, stderr, error}; it never rejects from  *)
(* the callback.  child_process.exec itself throws synchronously, inside   *)
(* the promise executor, when the process cannot be spawned at all (an     *)
(* argument with a NUL byte, ENOMEM): the promise is then rejected and the *)
(* await in getRepoStatus throws (threw = TRUE).                           *)
(***************************************************************************)
ExecResult(stdout, stderr) == [threw |-> FALSE, stdout |-> stdout, stderr |-> stderr]

\* No execAsync call is being followed.
NoRun == [command |-> undefined, promise |-> "none", settled |-> 0, processes |-> 0,
          child |-> "none", exit |-> undefined, value |-> undefined]
SpawnThrows == [threw |-> TRUE, stdout |-> "", stderr |-> ""]

\* `ls "${projectPath}"`
LsOutcomes ==
    { ExecResult("README.md\nserver.ts\n", ""),
      ExecResult("", "ls: /projects/gone: No such file or directory\n"),
      SpawnThrows }

\* `git ... log -1`
LogOutcomes ==
    { ExecResult("commit 1a2b3c\n", ""),
      ExecResult("commit 1a2b3c\n", "warning: refname 'HEAD' is ambiguous.\n"),
      ExecResult("", "fatal: not a git repository (or any of the parent directories): .git\n"),
      ExecResult("", "fatal: your current branch 'main' does not have any commits yet\n"),
      ExecResult("", "fatal: bad object HEAD\n"),
      SpawnThrows }

\* `git ... status --porcelain=v1`: one line "XY path" per entry, in the order
\* git lists them.  An entry is its two-character code; the i-th path is f<i>.
StatusCodes == {"??", " M", "A "}

EntryLists == UNION { [1..n -> StatusCodes] : n \in 0..MaxEntries }

RECURSIVE porcelainFrom(_, _)
porcelainFrom(entries, i) ==
    IF i > Len(entries) THEN ""
    ELSE entries[i] \o " f" \o ToString(i) \o "\n" \o porcelainFrom(entries, i + 1)

porcelain(entries) == porcelainFrom(entries, 1)

\* What the status command can answer, with the entries its output lists:
\* the entries alone; the entries after a warning about a directory git could
\* not read (here one named fatal/); a fatal error and no output; no process.
StatusWarning == "warning: could not open directory 'fatal/': Permission denied\n"

StatusOutcomes ==
    { [entries |-> e, res |-> ExecResult(porcelain(e), err)] :
        e \in EntryLists, err \in {"", StatusWarning} }
    \cup { [entries |-> <<>>, res |-> ExecResult("", "fatal: unable to read index file\n")],
           [entries |-> <<>>, res |-> SpawnThrows] }

\* `git ... rev-list --count A..B`: the count on one line, or (no upstream
\* configured) nothing on stdout and a diagnostic on stderr.  A count is
\* given as {n}; {} stands for "the command reported no count".
RevListOutcomes ==
    { [count |-> {n}, res |-> ExecResult(ToString(n) \o "\n", "")] : n \in 0..MaxCount }
    \cup { [count |-> {},
            res |-> ExecResult("", "fatal: no upstream configured for branch 'main'\n")],
           [count |-> {}, res |-> SpawnThrows] }

(***************************************************************************)
(* getRepoStatus, one continuation per await.  Each operator is the code   *)
(* that runs when the awaited execAsync settles with `r`: it returns a     *)
(* status, throws, or awaits the next command.                             *)
(***************************************************************************)
Await(at) == [kind |-> "await", value |-> at]
Return(status) == [kind |-> "return", value |-> status]
Throw == [kind |-> "throw", value |-> undefined]
Pending == [kind |-> "pending", value |-> undefined]

\* Mutant of afterExistsCheck: the marker is looked for in stdout.
afterExistsCheckReadsStdout(existsCheck) ==
    IF existsCheck.threw THEN Throw
    ELSE IF indexOf(existsCheck.stdout, "No such file or directory") >= 0
         THEN Return(PathNotFound)
    ELSE Await("logCheck")

\* Mutant of afterExistsCheck: the missing path is noticed but the call goes on.
afterExistsCheckGoesOn(existsCheck) ==
    IF existsCheck.threw THEN Throw
    ELSE Await("logCheck")

afterExistsCheck(existsCheck) ==
    IF existsCheck.threw THEN Throw
    ELSE IF indexOf(existsCheck.stderr, "No such file or directory") >= 0
         THEN Return(PathNotFound)
    ELSE Await("logCheck")

\* Mutant of afterLogCheck: the generic fatal check comes first.
afterLogCheckFatalFirst(logCheck) ==
    IF logCheck.threw THEN Throw
    ELSE IF indexOf(logCheck.stderr, "fatal") >= 0 THEN Return(UnknownError)
    ELSE IF indexOf(logCheck.stderr, "not a git repository") >= 0 THEN Return(NotAGitRepo)
    ELSE IF indexOf(logCheck.stderr, "does not have any commits") >= 0 THEN Return(NoCommitsYet)
    ELSE Await("statusCheck")

afterLogCheck(logCheck) ==
    IF logCheck.threw THEN Throw
    ELSE IF indexOf(logCheck.stderr, "not a git repository") >= 0 THEN Return(NotAGitRepo)
    ELSE IF indexOf(logCheck.stderr, "does not have any commits") >= 0 THEN Return(NoCommitsYet)
    ELSE IF indexOf(logCheck.stderr, "fatal") >= 0 THEN Return(UnknownError)
    ELSE Await("statusCheck")

\* Mutant of afterLogCheckServerTs: the no-commits check is missing.
afterLogCheckServerTsNoEmptyCheck(logCheck) ==
    IF logCheck.threw THEN Throw
    ELSE IF indexOf(logCheck.stderr, "not a git repository") >= 0 THEN Return(NotAGitRepo)
    ELSE Await("statusCheck")

afterLogCheckServerTs(logCheck) ==
    IF logCheck.threw THEN Throw
    ELSE IF indexOf(logCheck.stderr, "not a git repository") >= 0 THEN Return(NotAGitRepo)
    ELSE IF indexOf(logCheck.stderr, "does not have any commits") >= 0 THEN Return(NoCommitsYet)
    ELSE Await("statusCheck")

\* Mutant of statuses: blank codes are kept (no filter).
statusesUnfiltered(stdout) ==
    firstTwo(split(trim(stdout), "\n"))

statuses(stdout) ==
    SelectSeq(firstTwo(split(trim(stdout), "\n")), LAMBDA c : c # "")

statusesServerTs(stdout) ==
    firstTwo(split(trim(stdout), "\n"))

\* Mutant of afterStatusCheck: the length test comes before the "??" test.
afterStatusCheckLengthFirst(statusCheck) ==
    IF statusCheck.threw THEN Throw
    ELSE IF indexOf(statusCheck.stderr, "fatal") >= 0 THEN Return(UnknownError)
    ELSE IF Len(statuses(statusCheck.stdout)) > 0 THEN Return(UncommittedChanges)
    ELSE IF arrayIndexOf(statuses(statusCheck.stdout), "??") >= 0 THEN Return(UntrackedFiles)
    ELSE Await("countAhead")

\* Mutant of afterStatusCheck: for a clean tree the behind count is taken first.
afterStatusCheckCountsBehindFirst(statusCheck) ==
    IF statusCheck.threw THEN Throw
    ELSE IF indexOf(statusCheck.stderr, "fatal") >= 0 THEN Return(UnknownError)
    ELSE IF arrayIndexOf(statuses(statusCheck.stdout), "??") >= 0 THEN Return(UntrackedFiles)
    ELSE IF Len(statuses(statusCheck.stdout)) > 0 THEN Return(UncommittedChanges)
    ELSE Await("countBehind")

afterStatusCheck(statusCheck) ==
    IF statusCheck.threw THEN Throw
    ELSE IF indexOf(statusCheck.stderr, "fatal") >= 0 THEN Return(UnknownError)
    ELSE IF arrayIndexOf(statuses(statusCheck.stdout), "??") >= 0 THEN Return(UntrackedFiles)
    ELSE IF Len(statuses(statusCheck.stdout)) > 0 THEN Return(UncommittedChanges)
    ELSE Await("countAhead")

afterStatusCheckServerTs(statusCheck) ==
    IF statusCheck.threw THEN Throw
    ELSE IF arrayIndexOf(statusesServerTs(statusCheck.stdout), "??") >= 0
         THEN Return(UntrackedFiles)
    ELSE IF Len(statusesServerTs(statusCheck.stdout)) > 1 THEN Return(UncommittedChanges)
    ELSE Await("countAhead")

\* Mutant of afterCountAhead: the count is compared with 1.
afterCountAheadOffByOne(r) ==
    IF r.threw THEN Throw
    ELSE IF ~parseInt(r.stdout).isNaN /\ parseInt(r.stdout).n > 1
         THEN Return(UnpushedChanges)
    ELSE Await("countBehind")

afterCountAhead(r) ==
    IF r.threw THEN Throw
    ELSE IF greaterThanZero(parseInt(r.stdout)) THEN Return(UnpushedChanges)
    ELSE Await("countBehind")

\* Mutant of afterCountBehind: the final `return RepoStatus.Okay` is missing.
afterCountBehindNoFinalReturn(r) ==
    IF r.threw THEN Throw
    ELSE IF greaterThanZero(parseInt(r.stdout)) THEN Return(UnpulledChanges)
    ELSE Return(undefined)

afterCountBehind(r) ==
    IF r.threw THEN Throw
    ELSE IF greaterThanZero(parseInt(r.stdout)) THEN Return(UnpulledChanges)
    ELSE Return(Okay)

Awaits == {"existsCheck", "logCheck", "statusCheck", "countAhead", "countBehind"}

resume(at, r) ==
    CASE at = "existsCheck" -> afterExistsCheck(r)
      [] at = "logCheck" -> afterLogCheck(r)
      [] at = "statusCheck" -> afterStatusCheck(r)
      [] at = "countAhead" -> afterCountAhead(r)
      [] at = "countBehind" -> afterCountBehind(r)

\* server.ts: its existence check and its two count checks are the same code
\* as part_003 (server.ts lines 84-87 and 110-122).
resumeServerTs(at, r) ==
    CASE at = "existsCheck" -> afterExistsCheck(r)
      [] at = "logCheck" -> afterLogCheckServerTs(r)
      [] at = "statusCheck" -> afterStatusCheckServerTs(r)
      [] at = "countAhead" -> afterCountAhead(r)
      [] at = "countBehind" -> afterCountBehind(r)

\* A whole call, given what each command answers if it is run: the
\* continuations chained from the first await until one returns or throws.
RECURSIVE runFrom(_, _)
runFrom(at, probes) ==
    LET k == resume(at, probes[at])
    IN  IF k.kind = "await" THEN runFrom(k.value, probes) ELSE k

RECURSIVE runFromServerTs(_, _)
runFromServerTs(at, probes) ==
    LET k == resumeServerTs(at, probes[at])
    IN  IF k.kind = "await" THEN runFromServerTs(k.value, probes) ELSE k

getRepoStatus(probes) == runFrom("existsCheck", probes)

getRepoStatusServerTs(probes) == runFromServerTs("existsCheck", probes)

(***************************************************************************)
(* SpecClassify: one call of getRepoStatus on every combination of         *)
(* arguments and command answers.                                          *)
(***************************************************************************)
\* part_003 is called with (path, gitDir || path + "/.git"); server.ts with (path).
Calls ==
    { [revision |-> "part_003", projectPath |-> "/projects/yadm", gitDir |-> "/projects/yadm/.git"],
      [revision |-> "part_003", projectPath |-> "/projects/yadm", gitDir |-> "/projects/yadm-git"],
      [revision |-> "server.ts", projectPath |-> "/projects/yadm", gitDir |-> undefined] }

\* No call is being followed step by step.
NoCall == [at |-> "idle", spawned |-> <<>>, answers |-> <<>>]

InitClassify ==
    /\ \E c \in Calls, ls \in LsOutcomes, lg \in LogOutcomes, st \in StatusOutcomes,
          ra \in RevListOutcomes, rb \in RevListOutcomes :
            input = [call |-> c, entries |-> st.entries, ahead |-> ra.count, behind |-> rb.count,
                     probes |-> [existsCheck |-> ls, logCheck |-> lg, statusCheck |-> st.res,
                                 countAhead |-> ra.res, countBehind |-> rb.res]]
    /\ result = Pending
    /\ call = NoCall
    /\ run = NoRun
    /\ config = [revision |-> "none"]
    /\ phase = "exited"
    /\ repoStatus = <<>>
    /\ req = <<>>

Classify ==
    /\ result = Pending
    /\ input.call.revision = "part_003"
    /\ result' = getRepoStatus(input.probes)
    /\ UNCHANGED <<input, call, run, serverVars>>

ClassifyServerTs ==
    /\ result = Pending
    /\ input.call.revision = "server.ts"
    /\ result' = getRepoStatusServerTs(input.probes)
    /\ UNCHANGED <<input, call, run, serverVars>>

NextClassify == Classify \/ ClassifyServerTs

SpecClassify == InitClassify /\ [][NextClassify]_vars

(***************************************************************************)
(* SpecCall: one call of getRepoStatus followed command by command.        *)
(* `spawned` lists the command lines handed to execAsync, `answers` what   *)
(* the completed ones answered; the command awaited is the last spawned.   *)
(***************************************************************************)
env == "GIT_DISCOVERY_ACROSS_FILESYSTEM=true"

gitCmd(c) ==
    IF c.revision = "part_003"
    THEN "git --work-tree=\"" \o c.projectPath \o "\" --git-dir=\"" \o c.gitDir \o "\""
    ELSE "git -C \"" \o c.projectPath \o "\""

\* The command line each await hands to execAsync.
command(at, c) ==
    CASE at = "existsCheck" -> "ls \"" \o c.projectPath \o "\""
      [] at = "logCheck" -> env \o " " \o gitCmd(c) \o " log -1"
      [] at = "statusCheck" -> env \o " " \o gitCmd(c) \o " status --porcelain=v1"
      [] at = "countAhead" -> env \o " " \o gitCmd(c) \o " rev-list --count @{u}..HEAD"
      [] at = "countBehind" -> env \o " " \o gitCmd(c) \o " rev-list --count HEAD..@{u}"

\* Every answer the awaited command can give.
CallOutcomes(at) ==
    CASE at = "existsCheck" -> LsOutcomes
      [] at = "logCheck" -> LogOutcomes
      [] at = "statusCheck" -> { o.res : o \in StatusOutcomes }
      [] at \in {"countAhead", "countBehind"} -> { o.res : o \in RevListOutcomes }

InitCall ==
    /\ \E c \in Calls : input = [call |-> c]
    /\ result = Pending
    /\ call = NoCall
    /\ run = NoRun
    /\ config = [revision |-> "none"]
    /\ phase = "exited"
    /\ repoStatus = <<>>
    /\ req = <<>>

\* getRepoStatus is called and runs up to its first await.
CallStarts ==
    /\ call.at = "idle"
    /\ call' = [at |-> "existsCheck",
                spawned |-> <<command("existsCheck", input.call)>>,
                answers |-> <<>>]
    /\ UNCHANGED <<input, result, run, serverVars>>

\* The call after the awaited command answered with o and the continuation k
\* ran: suspended at the next command, or settled.
afterCommand(c, o, k) ==
    IF k.kind = "await"
    THEN [at |-> k.value,
          spawned |-> Append(call.spawned, command(k.value, c)),
          answers |-> Append(call.answers, o)]
    ELSE [at |-> "done", spawned |-> call.spawned, answers |-> Append(call.answers, o)]

\* part_003: the awaited command completes (or could not be spawned) and the
\* call runs on to its next await, its return or its throw.
CallResumes ==
    /\ call.at \in Awaits
    /\ input.call.revision = "part_003"
    /\ \E o \in CallOutcomes(call.at) :
        LET k == resume(call.at, o)
        IN  /\ call' = afterCommand(input.call, o, k)
            /\ result' = IF k.kind = "await" THEN result ELSE k
    /\ UNCHANGED <<input, run, serverVars>>

CallResumesServerTs ==
    /\ call.at \in Awaits
    /\ input.call.revision = "server.ts"
    /\ \E o \in CallOutcomes(call.at) :
        LET k == resumeServerTs(call.at, o)
        IN  /\ call' = afterCommand(input.call, o, k)
            /\ result' = IF k.kind = "await" THEN result ELSE k
    /\ UNCHANGED <<input, run, serverVars>>

NextCall == CallStarts \/ CallResumes \/ CallResumesServerTs

SpecCall == InitCall /\ [][NextCall]_vars

(***************************************************************************)
(* SpecExec: one call of execAsync.  `promise` is the state of the promise *)
(* it returns, `settled` how often that promise was settled, `processes`   *)
(* how many child processes exec created, `exit` how the child ended and   *)
(* `value` what the promise was resolved or rejected with.                 *)
(***************************************************************************)
\* How the shell that exec starts for a command can end: its exit status (or
\* the spawn error reported through the child's 'error' event) and what was
\* captured of its output.
ChildOutcomes ==
    { [code |-> "0", stdout |-> "README.md\nserver.ts\n", stderr |-> ""],
      [code |-> "0", stdout |-> "", stderr |-> ""],
      [code |-> "0", stdout |-> "commit 1a2b3c\n", stderr |-> "warning: refname 'HEAD' is ambiguous.\n"],
      [code |-> "1", stdout |-> "", stderr |-> "ls: /projects/gone: No such file or directory\n"],
      [code |-> "128", stdout |-> "",
       stderr |-> "fatal: not a git repository (or any of the parent directories): .git\n"],
      [code |-> "127", stdout |-> "", stderr |-> "/bin/sh: git: not found\n"],
      [code |-> "ENOENT", stdout |-> "", stderr |-> ""] }

\* A JavaScript Error, and null.
Error(message) == [isNull |-> FALSE, message |-> message]
null == [isNull |-> TRUE, message |-> undefined]

\* The Error exec passes to its callback: null when the exit status is 0.
execError(cmd, o) ==
    IF o.code = "0" THEN null
    ELSE IF o.code = "ENOENT" THEN Error("spawn /bin/sh ENOENT")
    ELSE Error("Command failed: " \o cmd \o "\n" \o o.stderr)

\* error?.message
optionalMessage(error) == IF error.isNull THEN undefined ELSE error.message

\* Mutant of execCallback: a failed command rejects the promise.
execCallbackRejectsOnError(r, o) ==
    IF r.promise # "pending" THEN r
    ELSE IF ~execError(r.command, o).isNull
    THEN [r EXCEPT !.promise = "rejected", !.settled = @ + 1, !.value = execError(r.command, o)]
    ELSE [r EXCEPT !.promise = "resolved", !.settled = @ + 1,
                   !.value = [stdout |-> o.stdout, stderr |-> o.stderr, error |-> undefined]]

\* (error, stdout, stderr) => resolve({ stdout, stderr, error: error?.message }).
\* Resolving a promise that is no longer pending does nothing.
execCallback(r, o) ==
    IF r.promise # "pending" THEN r
    ELSE [r EXCEPT !.promise = "resolved", !.settled = @ + 1,
                   !.value = [stdout |-> o.stdout, stderr |-> o.stderr,
                              error |-> optionalMessage(execError(r.command, o))]]

InitExec ==
    /\ \E c \in Calls, at \in Awaits : run = [NoRun EXCEPT !.command = command(at, c)]
    /\ input = <<>>
    /\ result = Pending
    /\ call = NoCall
    /\ config = [revision |-> "none"]
    /\ phase = "exited"
    /\ repoStatus = <<>>
    /\ req = <<>>

\* execAsync(command): the promise executor calls exec.  exec returns a child
\* process, or throws because no process could be created (an invalid
\* argument, a spawn error other than those reported through the 'error'
\* event); an exception inside the executor rejects the promise.
ExecAsyncCalled ==
    /\ run.promise = "none"
    /\ \E created \in BOOLEAN :
        run' = IF created
               THEN [run EXCEPT !.promise = "pending", !.processes = @ + 1, !.child = "running"]
               ELSE [run EXCEPT !.promise = "rejected", !.settled = @ + 1,
                                !.value = Error("spawn ENOMEM")]
    /\ UNCHANGED <<input, result, call, serverVars>>

\* The child closes (or failed to start) and exec calls back, once.
ChildCloses ==
    /\ run.child = "running"
    /\ \E o \in ChildOutcomes :
        run' = [execCallback(run, o) EXCEPT !.child = "closed", !.exit = o]
    /\ UNCHANGED <<input, result, call, serverVars>>

NextExec == ExecAsyncCalled \/ ChildCloses

SpecExec == InitExec /\ [][NextExec]_vars

(***************************************************************************)
(* The configuration and main().                                           *)
(***************************************************************************)
Project(name, path, gitDir) == [name |-> name, path |-> path, gitDir |-> gitDir]

GitMonitor == Project("Git Monitor", "/projects/git-monitor", undefined)
Yadm == Project("YADM", "/projects/yadm", "/projects/yadm-git")
Nameless == Project("", "/projects/novel", undefined)

Group(title, projects) == [title |-> title, projects |-> projects]

\* The configurations drawn: part_003 reads {groups: [{title, projects}]},
\* server.ts reads {projects: [...]}.
Configs ==
    { [revision |-> "part_003", groups |-> <<>>],
      [revision |-> "part_003", groups |-> <<Group("Empty", <<>>)>>],
      [revision |-> "part_003", groups |-> <<Group("Personal", <<GitMonitor, Yadm>>)>>],
      [revision |-> "part_003", groups |-> <<Group("Empty", <<>>), Group("Dotfiles", <<Yadm>>)>>],
      [revision |-> "part_003", groups |-> <<Group("Personal", <<GitMonitor, Nameless>>)>>],
      [revision |-> "server.ts", projects |-> <<>>],
      [revision |-> "server.ts", projects |-> <<GitMonitor, Yadm>>],
      [revision |-> "server.ts", projects |-> <<Nameless>>] }

RECURSIVE flatten(_)
flatten(groups) ==
    IF groups = <<>> THEN <<>> ELSE Head(groups).projects \o flatten(Tail(groups))

\* The projects of a configuration in the order the listener visits them.
projectsOf(cfg) ==
    IF cfg.revision = "part_003" THEN flatten(cfg.groups) ELSE cfg.projects

\* !project.path || !project.name
missingField(project) == project.path \in {"", undefined} \/ project.name \in {"", undefined}

\* The checks of main() between reading the file and creating the server.
configAccepted(cfg) ==
    IF cfg.revision = "part_003"
    THEN /\ Len(cfg.groups) # 0
         /\ \A j \in 1..Len(flatten(cfg.groups)) : ~missingField(flatten(cfg.groups)[j])
    ELSE /\ Len(cfg.projects) # 0
         /\ \A j \in 1..Len(cfg.projects) : ~missingField(cfg.projects[j])

\* project.gitDir || `${project.path}/.git`
resolveGitDir(project) ==
    IF project.gitDir \in {"", undefined} THEN project.path \o "/.git" ELSE project.gitDir

(***************************************************************************)
(* requestListener.  A task is one project's getRepoStatus call inside one *)
(* request: `at` is the await it is suspended at ("idle" before the call,  *)
(* "settled" once the call has returned or thrown and the listener has not *)
(* yet resumed, "done" after the listener took the outcome), `ret` how the *)
(* call settled, `status` what the listener recorded for the project.  A   *)
(* request carries its request line, whether its client is still           *)
(* connected, the page rendered for it and the responses sent on it.       *)
(***************************************************************************)
Requests == 1..MaxRequests

IdleTask == [at |-> "idle", ret |-> Pending, status |-> undefined, execThrew |-> FALSE]
StartedTask == [at |-> "existsCheck", ret |-> Pending, status |-> undefined, execThrew |-> FALSE]

\* The listener is registered for every request: any method, any path.
RequestLines == {"GET /", "POST /status"}

IdleRequest ==
    [pc |-> "idle", line |-> undefined, connected |-> FALSE, tasks |-> <<>>, page |-> <<>>,
     sent |-> <<>>]

\* A request as the listener receives it.
NewRequest(line) == [IdleRequest EXCEPT !.pc = "running", !.line = line, !.connected = TRUE]

\* response.setHeader("Content-Type", "text/html"); response.writeHead(200)
responseHead == [statusCode |-> 200, contentType |-> "text/html"]

\* Mutant of respond: rendering a page that holds an UnknownError throws, so
\* the listener ends without calling response.end.
respondThrowsOnUnknownError(request, page) ==
    IF \E j \in DOMAIN page : page[j] = UnknownError
    THEN [request EXCEPT !.pc = "failed"]
    ELSE [request EXCEPT !.pc = "responded", !.page = page, !.sent = Append(@, responseHead)]

\* response.end(renderOutput(...)): the page is sent under the head set before.
respond(request, page) ==
    [request EXCEPT !.pc = "responded", !.page = page, !.sent = Append(@, responseHead)]

\* What the commands answer while the server runs: for each command a few of
\* its possible answers, enough to reach every await and to settle a call with
\* an exception, with an early status (NotAGitRepo) and with the last one (Okay).
ServerOutcomes(at) ==
    CASE at = "existsCheck" ->
            { ExecResult("README.md\nserver.ts\n", ""), SpawnThrows }
      [] at = "logCheck" ->
            { ExecResult("commit 1a2b3c\n", ""),
              ExecResult("", "fatal: not a git repository (or any of the parent directories): .git\n"),
              SpawnThrows }
      [] at = "statusCheck" ->
            { ExecResult("", ""), SpawnThrows }
      [] at = "countAhead" ->
            { ExecResult("0\n", ""),
              ExecResult("", "fatal: no upstream configured for branch 'main'\n"),
              SpawnThrows }
      [] at = "countBehind" ->
            { ExecResult("0\n", ""), SpawnThrows }

\* Mutant of afterGetRepoStatus: no try/catch around the call.
afterGetRepoStatusNoCatch(ret) ==
    IF ret.kind = "return" THEN [escaped |-> FALSE, status |-> ret.value]
    ELSE [escaped |-> TRUE, status |-> undefined]

\* try { status = await getRepoStatus(...) } catch { UnknownError }: what the
\* listener records for the project, and whether the exception leaves the
\* try statement.
afterGetRepoStatus(ret) ==
    IF ret.kind = "return" THEN [escaped |-> FALSE, status |-> ret.value]
    ELSE [escaped |-> FALSE, status |-> UnknownError]

afterGetRepoStatusServerTs(ret) ==
    IF ret.kind = "return" THEN [escaped |-> FALSE, status |-> ret.value]
    ELSE [escaped |-> FALSE, status |-> UnknownError]

NumProjects == Len(projectsOf(config))

Init ==
    /\ config \in Configs
    /\ phase = "starting"
    /\ repoStatus = [j \in 1..Len(projectsOf(config)) |-> undefined]
    /\ req = [r \in Requests |-> IdleRequest]
    /\ input = <<>>
    /\ result = Pending
    /\ call = NoCall
    /\ run = NoRun

\* main(): validate the configuration, then listen or return.
Main ==
    /\ phase = "starting"
    /\ phase' = IF configAccepted(config) THEN "listening" ELSE "exited"
    /\ UNCHANGED <<config, repoStatus, req, classifyVars>>

\* part_003: a request arrives (its connection is given the lowest free
\* slot); the listener runs up to its first await, the `ls` of the first
\* project (or straight to the response when no group holds a project).
Request(r) ==
    /\ phase = "listening"
    /\ config.revision = "part_003"
    /\ req[r].pc = "idle"
    /\ \A q \in DOMAIN req : q < r => req[q].pc # "idle"
    /\ \E line \in RequestLines :
        req' = [req EXCEPT ![r] =
            IF NumProjects = 0
            THEN respond(NewRequest(line), <<>>)
            ELSE [NewRequest(line) EXCEPT
                    !.tasks = [j \in 1..NumProjects |-> IF j = 1 THEN StartedTask ELSE IdleTask]]]
    /\ UNCHANGED <<config, phase, repoStatus, classifyVars>>

\* part_003: the command a call awaits settles; getRepoStatus runs on to its
\* next await, or returns, or throws.
ExecSettles(r) ==
    /\ config.revision = "part_003"
    /\ req[r].pc = "running"
    /\ \E j \in 1..NumProjects :
        /\ req[r].tasks[j].at \in Awaits
        /\ \E o \in ServerOutcomes(req[r].tasks[j].at) :
            LET k == resume(req[r].tasks[j].at, o)
                t == req[r].tasks[j]
            IN  req' = [req EXCEPT ![r].tasks[j] =
                    IF k.kind = "await"
                    THEN [t EXCEPT !.at = k.value]
                    ELSE [t EXCEPT !.at = "settled", !.ret = k, !.execThrew = o.threw]]
    /\ UNCHANGED <<config, phase, repoStatus, classifyVars>>

\* part_003: the listener resumes after `await getRepoStatus`: it writes
\* project.repoStatus, then calls getRepoStatus for the next project or, after
\* the last one, renders the page from the projects' repoStatus and responds.
Continue(r) ==
    /\ config.revision = "part_003"
    /\ req[r].pc = "running"
    /\ \E j \in 1..NumProjects :
        /\ req[r].tasks[j].at = "settled"
        /\ LET c == afterGetRepoStatus(req[r].tasks[j].ret)
               written == [repoStatus EXCEPT ![j] = c.status]
               taken == [req[r].tasks EXCEPT ![j].at = "done", ![j].status = c.status]
           IN  IF c.escaped
               THEN /\ req' = [req EXCEPT ![r].pc = "failed"]
                    /\ UNCHANGED repoStatus
               ELSE /\ repoStatus' = written
                    /\ req' = [req EXCEPT ![r] =
                            IF j < NumProjects
                            THEN [@ EXCEPT !.tasks = [taken EXCEPT ![j + 1] = StartedTask]]
                            ELSE respond([@ EXCEPT !.tasks = taken], written)]
    /\ UNCHANGED <<config, phase, classifyVars>>

\* server.ts: a request arrives; projects.map starts every project's call, each
\* running up to its `ls`.
RequestServerTs(r) ==
    /\ phase = "listening"
    /\ config.revision = "server.ts"
    /\ req[r].pc = "idle"
    /\ \A q \in DOMAIN req : q < r => req[q].pc # "idle"
    /\ \E line \in RequestLines :
        req' = [req EXCEPT ![r] =
            [NewRequest(line) EXCEPT !.tasks = [j \in 1..NumProjects |-> StartedTask]]]
    /\ UNCHANGED <<config, phase, repoStatus, classifyVars>>

\* server.ts: the command one of the calls awaits settles; when the call
\* returns or throws, the mapped function yields [project, status].
ExecSettlesServerTs(r) ==
    /\ config.revision = "server.ts"
    /\ req[r].pc = "running"
    /\ \E j \in 1..NumProjects :
        /\ req[r].tasks[j].at \in Awaits
        /\ \E o \in ServerOutcomes(req[r].tasks[j].at) :
            LET k == resumeServerTs(req[r].tasks[j].at, o)
                t == req[r].tasks[j]
                c == afterGetRepoStatusServerTs(k)
            IN  req' = [req EXCEPT ![r] =
                    IF k.kind = "await"
                    THEN [@ EXCEPT !.tasks[j].at = k.value]
                    ELSE IF c.escaped
                    THEN [@ EXCEPT !.pc = "failed"]
                    ELSE [@ EXCEPT !.tasks[j] =
                            [t EXCEPT !.at = "done", !.ret = k, !.status = c.status,
                                      !.execThrew = o.threw]]]
    /\ UNCHANGED <<config, phase, repoStatus, classifyVars>>

\* Mutant of promiseAll: fulfilled as soon as one promise is (Promise.race).
promiseRace(tasks) == \E j \in DOMAIN tasks : tasks[j].at = "done"

\* Promise.all over the mapped calls is fulfilled when every one of them is.
promiseAll(tasks) == \A j \in DOMAIN tasks : tasks[j].at = "done"

\* server.ts: Promise.all has every result; the page is rendered from them.
RespondServerTs(r) ==
    /\ config.revision = "server.ts"
    /\ req[r].pc = "running"
    /\ promiseAll(req[r].tasks)
    /\ req' = [req EXCEPT ![r] = respond(@, [j \in 1..NumProjects |-> req[r].tasks[j].status])]
    /\ UNCHANGED <<config, phase, repoStatus, classifyVars>>

\* The client goes away while its pass is running.  The listener registers no
\* handler for it: nothing of the pass reads `connected`.
Disconnect(r) ==
    /\ req[r].pc = "running"
    /\ req[r].connected
    /\ req' = [req EXCEPT ![r].connected = FALSE]
    /\ UNCHANGED <<config, phase, repoStatus, classifyVars>>

\* The response has been sent; the connection's slot is free again.
Close(r) ==
    /\ req[r].pc = "responded"
    /\ req' = [req EXCEPT ![r] = IdleRequest]
    /\ UNCHANGED <<config, phase, repoStatus, classifyVars>>

Next ==
    \/ Main
    \/ \E r \in Requests : Request(r)
    \/ \E r \in Requests : ExecSettles(r)
    \/ \E r \in Requests : Continue(r)
    \/ \E r \in Requests : RequestServerTs(r)
    \/ \E r \in Requests : ExecSettlesServerTs(r)
    \/ \E r \in Requests : RespondServerTs(r)
    \/ \E r \in Requests : Disconnect(r)
    \/ \E r \in Requests : Close(r)

Spec == Init /\ [][Next]_vars

\* A step of request r's pass: a command's callback or a continuation.
PassStep(r) ==
    ExecSettles(r) \/ Continue(r) \/ ExecSettlesServerTs(r) \/ RespondServerTs(r)

\* FairSpec: one connection followed from each request to its response.  Every
\* command that was spawned terminates and its callback is run, and the event
\* loop runs every continuation that is ready: a step of the pass that stays
\* possible is taken.  (No guard of a pass reads anything another request
\* writes, so the pass is followed on its own.)
InitAlone ==
    /\ config \in Configs
    /\ phase = "starting"
    /\ repoStatus = [j \in 1..Len(projectsOf(config)) |-> undefined]
    /\ req = <<IdleRequest>>
    /\ input = <<>>
    /\ result = Pending
    /\ call = NoCall
    /\ run = NoRun

NextAlone ==
    \/ Main
    \/ Request(1)
    \/ ExecSettles(1)
    \/ Continue(1)
    \/ RequestServerTs(1)
    \/ ExecSettlesServerTs(1)
    \/ RespondServerTs(1)
    \/ Disconnect(1)
    \/ Close(1)

FairSpec == InitAlone /\ [][NextAlone]_vars /\ WF_vars(PassStep(1))

\* SpecConcurrent: an accepted configuration and one connection more than
\* Spec, so that passes overlap; the clients stay connected.
InitConcurrent ==
    /\ config \in { c \in Configs : configAccepted(c) }
    /\ phase = "starting"
    /\ repoStatus = [j \in 1..Len(projectsOf(config)) |-> undefined]
    /\ req = [r \in 1..(MaxRequests + 1) |-> IdleRequest]
    /\ input = <<>>
    /\ result = Pending
    /\ call = NoCall
    /\ run = NoRun

NextConcurrent ==
    \/ Main
    \/ \E r \in DOMAIN req : Request(r)
    \/ \E r \in DOMAIN req : ExecSettles(r)
    \/ \E r \in DOMAIN req : Continue(r)
    \/ \E r \in DOMAIN req : RequestServerTs(r)
    \/ \E r \in DOMAIN req : ExecSettlesServerTs(r)
    \/ \E r \in DOMAIN req : RespondServerTs(r)
    \/ \E r \in DOMAIN req : Close(r)

SpecConcurrent == InitConcurrent /\ [][NextConcurrent]_vars

(***************************************************************************)
(* What one call was given, in the words of the properties below.          *)
(***************************************************************************)
Settled == result # Pending

contains(text, marker) == indexOf(text, marker) >= 0

\* The existence check ran and its error text says the path is missing.
ReportsPathMissing ==
    /\ ~input.probes.existsCheck.threw
    /\ contains(input.probes.existsCheck.stderr, "No such file or directory")

\* The existence check ran and found the path.
PathExists ==
    /\ ~input.probes.existsCheck.threw
    /\ ~contains(input.probes.existsCheck.stderr, "No such file or directory")

LogRan == PathExists /\ ~input.probes.logCheck.threw

\* The history checks of the revision at hand all pass (server.ts has no
\* fatal check after the history probe).
PassesHistoryChecks ==
    /\ LogRan
    /\ ~contains(input.probes.logCheck.stderr, "not a git repository")
    /\ ~contains(input.probes.logCheck.stderr, "does not have any commits")
    /\ input.call.revision = "part_003" => ~contains(input.probes.logCheck.stderr, "fatal")

\* The status probe ran and produced output (its entries are input.entries).
StatusRan == PassesHistoryChecks /\ ~input.probes.statusCheck.threw

StatusFatal == contains(input.probes.statusCheck.stderr, "fatal")

HasUntracked == \E i \in 1..Len(input.entries) : input.entries[i] = "??"

\* A repository with history and a clean working tree: the history checks
\* pass and the status probe finds nothing (no fatal error, no entry).
CleanRepoWithHistory ==
    /\ StatusRan
    /\ ~contains(input.probes.logCheck.stderr, "fatal")
    /\ ~StatusFatal
    /\ input.entries = <<>>

AheadRan == CleanRepoWithHistory /\ ~input.probes.countAhead.threw
BehindRan == AheadRan /\ ~input.probes.countBehind.threw

AheadPositive == \E n \in input.ahead : n > 0
BehindPositive == \E n \in input.behind : n > 0

(***************************************************************************)
(* Properties of getRepoStatus, checked under SpecClassify.                *)
(***************************************************************************)

\* C1: whenever the existence check reports that the working path does not
\* exist, the call returns PathNotFound, whatever the history, status, ahead
\* and behind probes would answer and whatever gitDir is.
C1_MissingPathIsPathNotFound ==
    (Settled /\ ReportsPathMissing) => result = Return(PathNotFound)

\* C1 witness: a call with a gitDir elsewhere whose history, status and count
\* probes would all answer as for a healthy repository, settled PathNotFound.
C1_Witness ==
    /\ result = Return(PathNotFound)
    /\ input.call.gitDir = "/projects/yadm-git"
    /\ input.probes.logCheck.stderr = "" /\ ~input.probes.logCheck.threw
    /\ input.probes.statusCheck.stderr = "" /\ ~input.probes.statusCheck.threw
    /\ input.entries = <<>>
    /\ input.ahead = {0} /\ input.behind = {0}

\* C2: for an existing path whose history probe reports "not a git
\* repository", the call returns NotAGitRepo and no later-stage status,
\* whatever the later probes would answer.
C2_NotARepoIsNotAGitRepo ==
    (Settled /\ LogRan /\ contains(input.probes.logCheck.stderr, "not a git repository"))
        => /\ result = Return(NotAGitRepo)
           /\ result.value \notin { NoCommitsYet, UnknownError, UntrackedFiles,
                                    UncommittedChanges, UnpushedChanges, UnpulledChanges, Okay }

\* C2 witness: NotAGitRepo returned although the status probe would list an
\* untracked file and the branch would count as ahead.
C2_Witness ==
    /\ result = Return(NotAGitRepo)
    /\ HasUntracked
    /\ AheadPositive

\* C3: for an existing repository whose history probe reports that the branch
\* has no commits, the call returns NoCommitsYet, whatever the working tree
\* holds and whatever the ahead and behind probes would answer.
C3_NoCommitsIsNoCommitsYet ==
    (/\ Settled /\ LogRan
     /\ ~contains(input.probes.logCheck.stderr, "not a git repository")
     /\ contains(input.probes.logCheck.stderr, "does not have any commits"))
        => result = Return(NoCommitsYet)

\* C3 witness: NoCommitsYet returned with untracked and modified files in the
\* working tree.
C3_Witness ==
    /\ result = Return(NoCommitsYet)
    /\ HasUntracked
    /\ \E i \in 1..Len(input.entries) : input.entries[i] = " M"

\* C4 as stated: once the existence and history checks pass, a status output
\* with at least one "??" entry gives UntrackedFiles.  Refuted: the status
\* probe's own fatal check comes first (part_003 lines 114-116).
C4_Original ==
    (Settled /\ StatusRan /\ HasUntracked) => result = Return(UntrackedFiles)

\* C4 amended: once the existence and history checks pass and the status
\* probe's error text holds no fatal marker, a status output with at least one
\* "??" entry gives UntrackedFiles, whatever the other entries, their order and
\* the ahead and behind counts are.
C4_UntrackedWins ==
    (Settled /\ StatusRan /\ ~StatusFatal /\ HasUntracked) => result = Return(UntrackedFiles)

\* C4 witness: UntrackedFiles returned for an output whose first entry is a
\* modified file and whose second is untracked, on a branch that is ahead.
C4_Witness ==
    /\ result = Return(UntrackedFiles)
    /\ Len(input.entries) >= 2
    /\ input.entries[1] = " M" /\ input.entries[2] = "??"
    /\ AheadPositive

\* C5 as stated: once the existence and history checks pass (and the status
\* probe reports no fatal error), one or more entries none of which is "??"
\* give UncommittedChanges, a single entry included; an empty output never
\* gives UncommittedChanges.  Refuted by server.ts, whose test is length > 1.
C5_Original ==
    /\ (Settled /\ StatusRan /\ ~StatusFatal /\ input.entries # <<>> /\ ~HasUntracked)
            => result = Return(UncommittedChanges)
    /\ (Settled /\ StatusRan /\ input.entries = <<>>)
            => result # Return(UncommittedChanges)

\* C6: for a repository with history and a clean working tree, an ahead count
\* greater than 0 gives UnpushedChanges, whatever the behind count is.
C6_AheadIsUnpushed ==
    (Settled /\ AheadRan /\ AheadPositive) => result = Return(UnpushedChanges)

\* C6 witness: UnpushedChanges returned for a branch that is also behind.
C6_Witness ==
    /\ result = Return(UnpushedChanges)
    /\ input.ahead = {2}
    /\ BehindPositive

\* C7: for a repository with history and a clean working tree, an ahead count
\* of 0 and a behind count greater than 0 give UnpulledChanges.
C7_BehindIsUnpulled ==
    (Settled /\ BehindRan /\ input.ahead = {0} /\ BehindPositive)
        => result = Return(UnpulledChanges)

\* C7 witness: UnpulledChanges returned with ahead = 0 and behind = MaxCount.
C7_Witness ==
    /\ result = Return(UnpulledChanges)
    /\ input.ahead = {0}
    /\ input.behind = {MaxCount}

\* C8: getRepoStatus (part_003) returns Okay exactly when every check found
\* nothing: the path exists, the history probe's error text matches none of
\* the three markers, the status probe reports no fatal error and no entry,
\* and neither count is greater than 0.
C8_OkayIffNothingFound ==
    (Settled /\ input.call.revision = "part_003")
        => (result = Return(Okay)
                <=> (BehindRan /\ ~AheadPositive /\ ~BehindPositive))

\* C8 witness: Okay returned for a clean repository with ahead = 0, behind = 0.
C8_Witness ==
    /\ result = Return(Okay)
    /\ input.call.revision = "part_003"
    /\ input.entries = <<>>
    /\ input.ahead = {0} /\ input.behind = {0}

(***************************************************************************)
(* Properties of the request listener, checked under Spec.                 *)
(***************************************************************************)
TasksOf(r) == req[r].tasks

\* What the try/catch around one call must record, given how the call settled.
OwnStatus(t) == IF t.ret.kind = "throw" THEN UnknownError ELSE t.ret.value

\* C9: a getRepoStatus call all of whose commands completed settles by
\* returning one member of RepoStatus (never by throwing, never undefined),
\* and a rendered page carries a member of RepoStatus for every configured
\* project.
C9_OneStatusPerCall ==
    \A r \in Requests :
        /\ \A j \in DOMAIN TasksOf(r) :
            (TasksOf(r)[j].at \in {"settled", "done"} /\ ~TasksOf(r)[j].execThrew)
                => /\ TasksOf(r)[j].ret.kind = "return"
                   /\ TasksOf(r)[j].ret.value \in RepoStatus
        /\ req[r].pc = "responded"
                => /\ Len(req[r].page) = NumProjects
                   /\ \A j \in 1..NumProjects : req[r].page[j] \in RepoStatus

\* C9 witness: a page rendered for two projects whose commands all completed,
\* one Okay and one NotAGitRepo.
C9_Witness ==
    \E r \in Requests :
        /\ req[r].pc = "responded"
        /\ NumProjects = 2
        /\ \A j \in 1..2 : ~TasksOf(r)[j].execThrew
        /\ req[r].page = <<Okay, NotAGitRepo>>

\* C10, the step: when the part_003 listener takes the outcome of the call for
\* project j, it writes that call's own status (UnknownError if the call
\* threw) to project j and leaves every other project's repoStatus alone.
C10_TakesOwnOutcome ==
    \A r \in Requests : \A j \in 1..Len(repoStatus) :
        ( /\ config.revision = "part_003"
          /\ req[r].pc = "running"
          /\ req[r].tasks[j].at = "settled"
          /\ req'[r].pc # "failed"
          /\ req'[r].tasks[j].at = "done" )
            => /\ repoStatus'[j] = OwnStatus(req[r].tasks[j])
               /\ \A i \in 1..Len(repoStatus) : i # j => repoStatus'[i] = repoStatus[i]

\* C10, the states: no exception leaves the per-project try/catch (no request
\* fails); every project whose call has been taken carries its own call's
\* status, UnknownError exactly for a call that threw; a response is emitted
\* only after every project of the pass was classified, and in server.ts it
\* shows these statuses.
C10_PassIsolated ==
    \A r \in Requests :
        /\ req[r].pc # "failed"
        /\ \A j \in DOMAIN TasksOf(r) :
            TasksOf(r)[j].at = "done" => TasksOf(r)[j].status = OwnStatus(TasksOf(r)[j])
        /\ req[r].pc = "responded"
                => /\ \A j \in DOMAIN TasksOf(r) : TasksOf(r)[j].at = "done"
                   /\ config.revision = "server.ts"
                        => req[r].page = [j \in 1..NumProjects |-> OwnStatus(TasksOf(r)[j])]

\* C10: in one pass, an exception raised while classifying one project gives
\* UnknownError for that project only; every other project gets the status
\* its own call returned, the response is still emitted and no exception
\* escapes into the request handler.
C10_ErrorsStayLocal == [](C10_PassIsolated) /\ [][C10_TakesOwnOutcome]_vars

\* C10 witness: a response emitted by a pass whose first project's call threw
\* and whose second project's call returned Okay.
C10_Witness ==
    \E r \in Requests :
        /\ req[r].pc = "responded"
        /\ NumProjects = 2
        /\ TasksOf(r)[1].ret = Throw /\ TasksOf(r)[1].status = UnknownError
        /\ TasksOf(r)[2].ret = Return(Okay) /\ TasksOf(r)[2].status = Okay
        /\ req[r].page = <<UnknownError, Okay>>

(***************************************************************************)
(* Properties of main() and of the passes, checked under Spec.             *)
(***************************************************************************)
\* The loaded configuration holds at least one project and every project has
\* a non-empty name and a non-empty path.
HasValidProjects ==
    /\ NumProjects >= 1
    /\ \A j \in 1..NumProjects : ~missingField(projectsOf(config)[j])

\* Some request has been taken by the listener, or some call has started.
SomePassRan == \E r \in Requests : req[r].pc # "idle" \/ req[r].tasks # <<>>

\* C11 as stated: the server listens only if the configuration holds at least
\* one project and every project has a non-empty name and path; otherwise
\* (an empty project list, groups without projects, a project missing a
\* field) no listener is started and no pass ever runs.  Refuted by part_003,
\* which counts groups, not projects (lines 209-212).
C11_Original ==
    /\ phase = "listening" => HasValidProjects
    /\ ~HasValidProjects => (phase # "listening" /\ ~SomePassRan)

\* The responses sent on request r so far are all 200 text/html, at most one
\* was sent, one was sent exactly when the listener has responded, and the
\* listener did not end without responding.
C12_OneResponse(r) ==
    /\ req[r].pc # "failed"
    /\ Len(req[r].sent) <= 1
    /\ \A i \in 1..Len(req[r].sent) :
            req[r].sent[i] = [statusCode |-> 200, contentType |-> "text/html"]
    /\ req[r].pc = "responded" <=> Len(req[r].sent) = 1

\* C12: every request, whatever its method and path, eventually receives
\* exactly one response, with status 200 and Content-Type text/html, provided
\* every command spawned for it terminates; this holds whatever the commands
\* answer, failures to spawn included.
C12_EveryRequestAnswered ==
    /\ [](\A r \in DOMAIN req : C12_OneResponse(r))
    /\ \A line \in RequestLines :
            (req[1].pc = "running" /\ req[1].line = line)
                ~> (req[1].pc = "responded" /\ req[1].line = line /\ Len(req[1].sent) = 1)

\* C12 witness: a POST to /status answered 200 text/html by a pass in which
\* one project's command could not be spawned and the other project is not a
\* repository.
C12_Witness ==
    \E r \in DOMAIN req :
        /\ req[r].pc = "responded"
        /\ req[r].line = "POST /status"
        /\ req[r].sent = <<[statusCode |-> 200, contentType |-> "text/html"]>>
        /\ NumProjects = 2
        /\ TasksOf(r)[1].execThrew
        /\ req[r].page = <<UnknownError, NotAGitRepo>>

\* C13 as stated: with two or more requests in flight, the page rendered for
\* a request shows for every project the status that request's own pass
\* computed for it.  Refuted by part_003: the passes write the shared project
\* records and the page is rendered from them (lines 226-241).
C13_Original ==
    \A r \in DOMAIN req :
        req[r].pc = "responded"
            => /\ Len(req[r].page) = NumProjects
               /\ \A j \in 1..NumProjects : req[r].page[j] = OwnStatus(TasksOf(r)[j])

\* C14 as stated: once the configuration is loaded and validated, no step of
\* any request changes the configuration or a group or project record
\* reachable from it (the projects' repoStatus fields included).  Refuted by
\* part_003: the listener's copy of the configuration is shallow and the pass
\* assigns project.repoStatus on the configuration's own records.
C14_Original ==
    [][phase = "listening" => (config' = config /\ repoStatus' = repoStatus)]_vars

\* C15 as stated: within one pass the projects are classified concurrently:
\* while the pass is running every project's call has been started, so no
\* project waits for the commands of another.  Refuted by part_003, whose
\* loop awaits each call before it starts the next (lines 227-236).
C15_Original ==
    \A r \in DOMAIN req :
        req[r].pc = "running" => \A j \in 1..NumProjects : TasksOf(r)[j].at # "idle"

(***************************************************************************)
(* Properties of the commands of one call, checked under SpecCall.         *)
(***************************************************************************)
IsPrefix(s, t) == Len(s) <= Len(t) /\ \A i \in 1..Len(s) : s[i] = t[i]

\* The five command lines of a call in the order the claims name them:
\* ls, log -1, status --porcelain, ahead count, behind count.
CommandOrder(c) ==
    << command("existsCheck", c), command("logCheck", c), command("statusCheck", c),
       command("countAhead", c), command("countBehind", c) >>

\* C16: the commands one getRepoStatus call spawns are always a prefix of
\* [ls, log -1, status --porcelain, ahead count, behind count]: each at most
\* once, in this order, a command only after the previous one completed, and
\* never more than 6 in total (in fact never more than 5).
C16_SpawnsInOrder ==
    /\ IsPrefix(call.spawned, CommandOrder(input.call))
    /\ \A i, j \in 1..Len(call.spawned) : i # j => call.spawned[i] # call.spawned[j]
    /\ Len(call.spawned) <= 6
    /\ Len(call.spawned) <= Len(call.answers) + 1
    /\ call.at = "done" => Len(call.spawned) = Len(call.answers)
    /\ call.at \in Awaits =>
            /\ Len(call.spawned) = Len(call.answers) + 1
            /\ call.spawned[Len(call.spawned)] = command(call.at, input.call)

\* C16 witness: a call with a separate git directory that returned Okay after
\* all five commands, each spawned once and answered.
C16_Witness ==
    /\ call.at = "done"
    /\ result = Return(Okay)
    /\ input.call.gitDir = "/projects/yadm-git"
    /\ Len(call.spawned) = 5 /\ Len(call.answers) = 5
    /\ call.spawned[1] = "ls \"/projects/yadm\""
    /\ call.spawned[5] =
        "GIT_DISCOVERY_ACROSS_FILESYSTEM=true git --work-tree=\"/projects/yadm\" --git-dir=\"/projects/yadm-git\" rev-list --count HEAD..@{u}"

\* The number of commands a call has spawned when it returns each status.
CommandsFor(status) ==
    CASE status = PathNotFound -> {1}
      [] status \in {NotAGitRepo, NoCommitsYet} -> {2}
      [] status = UnknownError -> {2, 3}
      [] status \in {UntrackedFiles, UncommittedChanges} -> {3}
      [] status = UnpushedChanges -> {4}
      [] status \in {UnpulledChanges, Okay} -> {5}

\* The i-th command's answer a makes the i-th check of part_003 match.
checkMatches(i, a) ==
    /\ ~a.threw
    /\ CASE i = 1 -> contains(a.stderr, "No such file or directory")
         [] i = 2 -> \/ contains(a.stderr, "not a git repository")
                     \/ contains(a.stderr, "does not have any commits")
                     \/ contains(a.stderr, "fatal")
         [] i = 3 -> contains(a.stderr, "fatal") \/ statuses(a.stdout) # <<>>
         [] i = 4 -> greaterThanZero(parseInt(a.stdout))
         [] i = 5 -> TRUE

\* C17, the states: a returned status was determined by the check after the
\* last command spawned (PathNotFound after ls alone; NotAGitRepo,
\* NoCommitsYet or a history UnknownError without a status or count command;
\* UntrackedFiles, UncommittedChanges or a status UnknownError without a count
\* command; UnpushedChanges without the behind count), and in part_003 the
\* first answer that makes its check match is the last answer of the call.
C17_StoppedAtFirstMatch ==
    /\ result.kind = "return"
            => /\ call.at = "done"
               /\ Len(call.spawned) \in CommandsFor(result.value)
               /\ Len(call.answers) = Len(call.spawned)
    /\ input.call.revision = "part_003"
            => \A i \in 1..Len(call.answers) :
                    checkMatches(i, call.answers[i])
                        => /\ result.kind = "return"
                           /\ Len(call.answers) = i /\ Len(call.spawned) = i

\* C17, the steps: once the call has settled, nothing more is spawned and its
\* status is not replaced.
C17_Final == result # Pending => (result' = result /\ call' = call)

\* C17: getRepoStatus stops at the first check that matches: once a check has
\* determined the status no further command is spawned for the call, and the
\* status of an earlier check is never replaced by a later one.
C17_StopsAtFirstMatch == [](C17_StoppedAtFirstMatch) /\ [][C17_Final]_vars

\* C17 witness: UnpushedChanges returned after four commands, the fourth
\* answering a count of 2; the behind count was not spawned.
C17_Witness ==
    /\ result = Return(UnpushedChanges)
    /\ input.call.revision = "part_003"
    /\ Len(call.spawned) = 4
    /\ call.answers[4].stdout = "2\n"
    /\ \A i \in 1..4 : call.spawned[i] # command("countBehind", input.call)

(***************************************************************************)
(* Further properties of getRepoStatus, checked under SpecClassify.        *)
(***************************************************************************)
LogFatal == contains(input.probes.logCheck.stderr, "fatal")
LogNotARepo == contains(input.probes.logCheck.stderr, "not a git repository")
LogNoCommits == contains(input.probes.logCheck.stderr, "does not have any commits")

\* The call returned UnknownError, or threw (the listener then records
\* UnknownError for the project).
EndsUnknownError == result = Return(UnknownError) \/ result = Throw

\* C18 as stated: a history probe whose error text holds the fatal marker and
\* neither specific marker gives UnknownError; a status probe whose error
\* text holds the fatal marker gives UnknownError whatever it lists and
\* whatever the counts are; when the history probe's error text holds the
\* fatal marker and a specific marker, the specific status wins.  Refuted by
\* server.ts, which has neither fatal check.
C18_Original ==
    /\ (Settled /\ LogRan /\ LogFatal /\ ~LogNotARepo /\ ~LogNoCommits)
            => EndsUnknownError
    /\ (Settled /\ LogRan /\ ~LogFatal /\ ~LogNotARepo /\ ~LogNoCommits
            /\ ~input.probes.statusCheck.threw /\ StatusFatal)
            => EndsUnknownError
    /\ (Settled /\ LogRan /\ LogFatal /\ LogNotARepo) => result = Return(NotAGitRepo)
    /\ (Settled /\ LogRan /\ LogFatal /\ ~LogNotARepo /\ LogNoCommits)
            => result = Return(NoCommitsYet)

\* The count command completed and its output holds no count (no upstream is
\* configured: nothing on stdout).
AheadUnparseable == ~input.probes.countAhead.threw /\ input.ahead = {}
BehindUnparseable == ~input.probes.countBehind.threw /\ input.behind = {}

\* C19: in part_003, for a clean repository with history, a count output that
\* does not parse as an integer is treated as 0: the call neither throws nor
\* returns UnknownError because of it, an unparseable ahead count leaves the
\* decision to the behind count (UnpulledChanges if that is greater than 0),
\* an unparseable behind count after an ahead count of 0 gives Okay, and so
\* do two unparseable counts.
C19_UnparseableCountIsZero ==
    (Settled /\ input.call.revision = "part_003" /\ CleanRepoWithHistory)
        => /\ (AheadUnparseable /\ ~input.probes.countBehind.threw)
                => /\ result.kind = "return"
                   /\ result.value # UnknownError
                   /\ result = IF BehindPositive THEN Return(UnpulledChanges) ELSE Return(Okay)
           /\ (AheadRan /\ ~AheadPositive /\ BehindUnparseable) => result = Return(Okay)
           /\ (AheadUnparseable /\ BehindUnparseable) => result = Return(Okay)

\* C19 witness: Okay returned for a clean repository without an upstream:
\* both count commands fail with a diagnostic and print no count.
C19_Witness ==
    /\ result = Return(Okay)
    /\ input.call.revision = "part_003"
    /\ CleanRepoWithHistory
    /\ AheadUnparseable /\ BehindUnparseable
    /\ input.probes.countAhead.stdout = ""
    /\ contains(input.probes.countAhead.stderr, "no upstream configured")

(***************************************************************************)
(* Properties of a pass and its response, checked under Spec.              *)
(***************************************************************************)
\* How far a call has come.
rank(at) ==
    CASE at = "idle" -> 0
      [] at = "existsCheck" -> 1
      [] at = "logCheck" -> 2
      [] at = "statusCheck" -> 3
      [] at = "countAhead" -> 4
      [] at = "countBehind" -> 5
      [] at = "settled" -> 6
      [] at = "done" -> 7

\* C20, the states: a response has been emitted only if no command of the
\* pass is outstanding and every configured project has the status this pass
\* gave it; a running pass, its client connected or not, always has a step
\* to take.
C20_RespondsAfterPass ==
    \A r \in DOMAIN req :
        /\ req[r].pc = "responded"
            => /\ Len(TasksOf(r)) = NumProjects
               /\ \A j \in 1..NumProjects :
                    /\ TasksOf(r)[j].at = "done"
                    /\ TasksOf(r)[j].status \in RepoStatus
                    /\ TasksOf(r)[j].status = OwnStatus(TasksOf(r)[j])
        /\ req[r].pc = "running" => ENABLED PassStep(r)

\* C20, the steps: a running pass is left only by responding; no call of it
\* is ever taken back or dropped; the client's disconnecting changes nothing
\* of the pass.
C20_NothingStopsPass ==
    \A r \in DOMAIN req :
        req[r].pc = "running"
            => /\ req'[r].pc \in {"running", "responded"}
               /\ Len(req'[r].tasks) = Len(req[r].tasks)
               /\ \A j \in DOMAIN TasksOf(r) : rank(req'[r].tasks[j].at) >= rank(TasksOf(r)[j].at)
               /\ req'[r].connected # req[r].connected
                    => (req'[r].pc = "running" /\ req'[r].tasks = req[r].tasks)

\* C20: the response to a request is never emitted before every command of
\* its pass has completed and every configured project has a status from that
\* pass; once a pass has started, nothing, the client's disconnecting
\* included, stops its remaining commands from being run.
C20_PassRunsToCompletion == [](C20_RespondsAfterPass) /\ [][C20_NothingStopsPass]_vars

\* C20 witness: a response emitted to a client that disconnected during the
\* pass, after both projects were classified Okay (five commands each).
C20_Witness ==
    \E r \in DOMAIN req :
        /\ req[r].pc = "responded"
        /\ ~req[r].connected
        /\ NumProjects = 2
        /\ \A j \in 1..2 : TasksOf(r)[j].at = "done" /\ TasksOf(r)[j].ret = Return(Okay)
        /\ req[r].page = <<Okay, Okay>>

(***************************************************************************)
(* Properties of execAsync, checked under SpecExec.                        *)
(***************************************************************************)
\* The promise was resolved with the captured output of the child, and with
\* an error message exactly when the command failed.
ResolvedWithOutput ==
    /\ run.settled = 1
    /\ run.child = "closed"
    /\ run.value.stdout = run.exit.stdout
    /\ run.value.stderr = run.exit.stderr
    /\ run.value.error # undefined <=> run.exit.code # "0"

\* C21 as stated: every call of execAsync creates exactly one process and
\* its promise is settled at most once and only by resolving, with the
\* captured stdout and stderr (and an error message when the command
\* failed); it never rejects.  Refuted: exec can throw inside the promise
\* executor, which rejects the promise with no process created.
C21_Original ==
    /\ run.promise # "rejected"
    /\ run.promise # "none" => run.processes = 1
    /\ run.settled <= 1
    /\ run.promise = "resolved" => ResolvedWithOutput

\* C21 amended: a call of execAsync creates at most one process and its
\* promise is settled at most once.  When exec created the process the
\* promise is never rejected: once the child has closed, whatever its exit
\* status (a missing executable included), the promise is resolved with the
\* captured stdout and stderr and with an error message exactly when the
\* command failed.  The promise is rejected only when exec threw inside the
\* executor, and then no process was created.
C21_ResolvesOnceSpawned ==
    /\ run.settled <= 1
    /\ run.processes <= 1
    /\ run.promise = "rejected" => (run.processes = 0 /\ run.child = "none" /\ run.settled = 1)
    /\ run.promise = "pending" => (run.processes = 1 /\ run.child = "running" /\ run.settled = 0)
    /\ run.promise = "resolved" => (run.processes = 1 /\ ResolvedWithOutput)
    /\ run.child = "closed" => run.promise = "resolved"

\* C21 witness: the promise of a git command resolved after the shell found
\* no git executable (exit status 127): stderr captured, error message set.
C21_Witness ==
    /\ run.promise = "resolved"
    /\ run.settled = 1 /\ run.processes = 1
    /\ run.exit.code = "127"
    /\ contains(run.command, "git --work-tree=")
    /\ run.value.stdout = ""
    /\ run.value.stderr = "/bin/sh: git: not found\n"
    /\ contains(run.value.error, "Command failed: GIT_DISCOVERY_ACROSS_FILESYSTEM=true git")

====
